---------------------------- MODULE Spec2Model ----------------------------
(***************************************************************************)
(* State-machine model of the spaceship_sim package: components.py,        *)
(* physics.py and spaceship.py, driven the way demo.py drives them (attach *)
(* the parts, then call simulate_step once per tick).                      *)
(*                                                                         *)
(* Numbers.  Python floats are modelled as exact rationals <<n, d>> in     *)
(* lowest terms with d > 0.  Rounding is therefore not modelled.           *)
(*                                                                         *)
(* Angles.  An angle is <<t, r>>: t quarter turns plus r radians, so that  *)
(* math.radians(90) is <<1, 0>> and adding w*dt radians adds to r.         *)
(* math.cos and math.sin are tabulated on the quarter turns (r = 0), where  *)
(* they are rational; a tick is explored only from a heading that is a     *)
(* whole number of quarter turns (OnQuarterTurn).  math.hypot is exact on  *)
(* axis-aligned vectors and on vectors whose squared length is a rational  *)
(* square.                                                                 *)
(***************************************************************************)
EXTENDS Integers, Sequences, FiniteSets, TLC

\* ------------------------------------------------------------------------
\* Bounds of the model
\* ------------------------------------------------------------------------

\* ticks (simulate_step or integrate calls) explored per flight
MaxTicks == 2

\* parts attached to one craft in the free-flight specification
MaxParts == 3

\* ------------------------------------------------------------------------
\* Exact rational arithmetic standing for Python's float operators
\* ------------------------------------------------------------------------

Abs(n) == IF n < 0 THEN -n ELSE n

RECURSIVE GCD(_, _)
GCD(a, b) == IF b = 0 THEN a ELSE GCD(b, a % b)

\* n/d in lowest terms, denominator positive
Rat(n, d) ==
  LET s == IF d < 0 THEN -1 ELSE 1
      g == GCD(Abs(n), Abs(d))
  IN  <<(s * n) \div g, (s * d) \div g>>

Zero == <<0, 1>>
One == <<1, 1>>
Half == <<1, 2>>
R(n) == <<n, 1>>

\* a + b
RAdd(a, b) ==
  IF a[1] = 0 THEN b
  ELSE IF b[1] = 0 THEN a
  ELSE IF a[2] = b[2] THEN Rat(a[1] + b[1], a[2])
  ELSE LET g == GCD(a[2], b[2])
           ka == b[2] \div g
           kb == a[2] \div g
       IN  Rat(a[1] * ka + b[1] * kb, a[2] * ka)

\* -a
RNeg(a) == <<-a[1], a[2]>>

\* a - b
RSub(a, b) == RAdd(a, RNeg(b))

\* a * b
RMul(a, b) ==
  IF a[1] = 0 THEN Zero
  ELSE IF b[1] = 0 THEN Zero
  ELSE IF a[2] = 1 /\ b[2] = 1 THEN <<a[1] * b[1], 1>>
  ELSE LET g1 == GCD(Abs(a[1]), b[2])
           g2 == GCD(Abs(b[1]), a[2])
       IN  <<(a[1] \div g1) * (b[1] \div g2), (a[2] \div g2) * (b[2] \div g1)>>

\* a / b, b # 0
RDiv(a, b) == RMul(a, IF b[1] > 0 THEN <<b[2], b[1]>> ELSE <<-b[2], -b[1]>>)

\* a ** 2
RSq(a) == <<a[1] * a[1], a[2] * a[2]>>

RAbs(a) == <<Abs(a[1]), a[2]>>

\* a < b, a <= b, a > b
RLt(a, b) == IF a[2] = b[2] THEN a[1] < b[1] ELSE RSub(a, b)[1] < 0
RLe(a, b) == a = b \/ RLt(a, b)
RGt(a, b) == RLt(b, a)

\* Python's min(a, b) and max(a, b): the first argument unless the second
\* is strictly smaller (larger)
RMin(a, b) == IF RLt(b, a) THEN b ELSE a
RMax(a, b) == IF RGt(b, a) THEN b ELSE a

\* the square root of a rational square (math.hypot on the vectors the
\* model reaches off the axes)
ISqrt(n) == CHOOSE k \in 0..n : k * k = n
RSqrt(a) == <<ISqrt(a[1]), ISqrt(a[2])>>

\* ------------------------------------------------------------------------
\* physics.py: constants
\* ------------------------------------------------------------------------

\* 9.80665 m/s^2
EARTH_GRAVITY == <<196133, 20000>>

\* 1.225 kg/m^3
ATMOSPHERIC_DENSITY == <<49, 40>>

\* 0.7
DRAG_COEFFICIENT == <<7, 10>>

\* math.pi / 180 as used by math.radians, with pi taken as 355/113
PiOver180 == <<71, 4068>>

\* ------------------------------------------------------------------------
\* Angles and the math module
\* ------------------------------------------------------------------------

\* math.radians(90), the default Spaceship.orientation
Radians90 == <<1, Zero>>

\* -angle
ANeg(angle) == <<-angle[1], RNeg(angle[2])>>

\* angle + x radians
AAddRad(angle, x) == <<angle[1], RAdd(angle[2], x)>>

\* the angle is a whole number of quarter turns
OnQuarterTurn(angle) == angle[2] = Zero

\* math.cos(angle), on the quarter turns
Cos(angle) ==
  LET k == angle[1] % 4
  IN  CASE OnQuarterTurn(angle) /\ k = 0 -> One
        [] OnQuarterTurn(angle) /\ k = 1 -> Zero
        [] OnQuarterTurn(angle) /\ k = 2 -> R(-1)
        [] OnQuarterTurn(angle) /\ k = 3 -> Zero

\* math.sin(angle), on the quarter turns
Sin(angle) ==
  LET k == angle[1] % 4
  IN  CASE OnQuarterTurn(angle) /\ k = 0 -> Zero
        [] OnQuarterTurn(angle) /\ k = 1 -> One
        [] OnQuarterTurn(angle) /\ k = 2 -> Zero
        [] OnQuarterTurn(angle) /\ k = 3 -> R(-1)

\* math.degrees(math.atan2(y, x)), on the axes
Atan2Degrees(y, x) ==
  CASE y[1] = 0 /\ x[1] >= 0 -> Zero
    [] y[1] = 0 /\ x[1] < 0 -> R(180)
    [] x[1] = 0 /\ y[1] > 0 -> R(90)
    [] x[1] = 0 /\ y[1] < 0 -> R(-90)

\* math.radians(x)
Radians(x) == RMul(x, PiOver180)

\* ------------------------------------------------------------------------
\* physics.py: vector primitives
\* ------------------------------------------------------------------------

Zero2 == <<Zero, Zero>>

add(a, b) == <<RAdd(a[1], b[1]), RAdd(a[2], b[2])>>

sub(a, b) == <<RSub(a[1], b[1]), RSub(a[2], b[2])>>

mul(a, scalar) == <<RMul(scalar, a[1]), RMul(scalar, a[2])>>

\* math.hypot(v[0], v[1])
length(v) ==
  IF v[1] = Zero THEN RAbs(v[2])
  ELSE IF v[2] = Zero THEN RAbs(v[1])
  ELSE RSqrt(RAdd(RSq(v[1]), RSq(v[2])))

normalize(v) ==
  LET mag == length(v)
  IN  IF v = Zero2 THEN Zero2
      ELSE <<RDiv(v[1], mag), RDiv(v[2], mag)>>

rotate(v, angle) ==
  LET c == Cos(angle)
      s == Sin(angle)
  IN  <<RSub(RMul(v[1], c), RMul(v[2], s)), RAdd(RMul(v[1], s), RMul(v[2], c))>>

dot(a, b) == RAdd(RMul(a[1], b[1]), RMul(a[2], b[2]))

cross_z(a, b) == RSub(RMul(a[1], b[2]), RMul(a[2], b[1]))

\* ------------------------------------------------------------------------
\* physics.py: aerodynamic forces
\* ------------------------------------------------------------------------

\* speed == 0 exactly when the velocity is the zero vector
aerodynamic_drag(velocity, reference_area) ==
  IF velocity = Zero2 THEN Zero2
  ELSE LET speed == length(velocity)
           drag_magnitude ==
             RMul(RMul(RMul(RMul(Half, ATMOSPHERIC_DENSITY), DRAG_COEFFICIENT),
                       reference_area), RSq(speed))
       IN  mul(normalize(mul(velocity, R(-1))), drag_magnitude)

aerodynamic_lift(wing, velocity_body) ==
  IF velocity_body = Zero2 THEN Zero2
  ELSE LET speed == length(velocity_body)
           angle == Atan2Degrees(velocity_body[2], velocity_body[1])
           alpha == RMax(RMin(RNeg(angle), wing.stall_angle), RNeg(wing.stall_angle))
           cl == RMul(wing.lift_curve, Radians(alpha))
           q == RMul(RMul(Half, ATMOSPHERIC_DENSITY), RSq(speed))
           lift_magnitude == RMul(RMul(cl, q), wing.area)
       IN  mul(<<Zero, One>>, lift_magnitude)

\* the rigid-body velocity of a point of the craft
PointVelocity(pos, velocity, angular_velocity, com) ==
  add(velocity, <<RMul(RNeg(angular_velocity), RSub(pos[2], com[2])),
                  RMul(angular_velocity, RSub(pos[1], com[1]))>>)

RECURSIVE DragLoop(_, _, _, _, _, _, _)
DragLoop(comps, i, velocity, angular_velocity, orientation, com, acc) ==
  IF i > Len(comps) THEN acc
  ELSE LET comp == comps[i]
           world_velocity == PointVelocity(comp.position, velocity, angular_velocity, com)
           drag_force_body ==
             aerodynamic_drag(rotate(world_velocity, ANeg(orientation)), comp.drag_area)
           drag_force_world == rotate(drag_force_body, orientation)
           lever == sub(comp.position, com)
       IN  DragLoop(comps, i + 1, velocity, angular_velocity, orientation, com,
                    [linear |-> add(acc.linear, drag_force_world),
                     torque |-> RAdd(acc.torque, cross_z(lever, drag_force_world))])

RECURSIVE LiftLoop(_, _, _, _, _, _, _)
LiftLoop(wings, i, velocity, angular_velocity, orientation, com, acc) ==
  IF i > Len(wings) THEN acc
  ELSE LET wing == wings[i]
           world_velocity == PointVelocity(wing.position, velocity, angular_velocity, com)
           velocity_body == rotate(world_velocity, ANeg(orientation))
           lift_body == aerodynamic_lift(wing, velocity_body)
           lift_world == rotate(lift_body, orientation)
           lever == sub(wing.position, com)
       IN  LiftLoop(wings, i + 1, velocity, angular_velocity, orientation, com,
                    [linear |-> add(acc.linear, lift_world),
                     torque |-> RAdd(acc.torque, cross_z(lever, lift_world))])

\* returns a ForceResult
compute_aero_forces(comps, wings, velocity, angular_velocity, orientation, com) ==
  LiftLoop(wings, 1, velocity, angular_velocity, orientation, com,
           DragLoop(comps, 1, velocity, angular_velocity, orientation, com,
                    [linear |-> Zero2, torque |-> Zero]))


\* ------------------------------------------------------------------------
\* components.py
\* ------------------------------------------------------------------------

\* inertia_override: float | None = None
None == <<>>

\* Component.inertia
component_inertia(comp) ==
  IF comp.inertia_override # None THEN comp.inertia_override
  ELSE LET width == comp.size[1]
           height == comp.size[2]
       IN  RDiv(RMul(comp.mass, RAdd(RSq(width), RSq(height))), R(12))

\* Engine(name, mass, position, size, drag_area, thrust, fuel_consumption,
\*        direction), gimbal_limit left at its default
Engine(name, mass, position, size, drag_area, thrust, fuel_consumption, direction) ==
  [class |-> "Engine", name |-> name, mass |-> mass, position |-> position,
   size |-> size, drag_area |-> drag_area, inertia_override |-> None,
   thrust |-> thrust, fuel_consumption |-> fuel_consumption,
   gimbal_limit |-> Zero, direction |-> direction]

FuelTank(name, mass, position, size, drag_area, fuel_capacity, fuel_level) ==
  [class |-> "FuelTank", name |-> name, mass |-> mass, position |-> position,
   size |-> size, drag_area |-> drag_area, inertia_override |-> None,
   fuel_capacity |-> fuel_capacity, fuel_level |-> fuel_level]

Wing(name, mass, position, size, drag_area, area, lift_curve, stall_angle) ==
  [class |-> "Wing", name |-> name, mass |-> mass, position |-> position,
   size |-> size, drag_area |-> drag_area, inertia_override |-> None,
   area |-> area, lift_curve |-> lift_curve, stall_angle |-> stall_angle]

HullSection(name, mass, position, size, drag_area) ==
  [class |-> "HullSection", name |-> name, mass |-> mass, position |-> position,
   size |-> size, drag_area |-> drag_area, inertia_override |-> None,
   structural_integrity |-> One]

Cockpit(name, mass, position, size, drag_area) ==
  [class |-> "Cockpit", name |-> name, mass |-> mass, position |-> position,
   size |-> size, drag_area |-> drag_area, inertia_override |-> None,
   crew_capacity |-> 1]

\* ------------------------------------------------------------------------
\* physics.py: propulsion
\* ------------------------------------------------------------------------

\* the engine loop: accumulates total_force, total_torque and fuel_needed
RECURSIVE EngineLoop(_, _, _, _, _, _)
EngineLoop(engines, i, throttle, orientation, com, acc) ==
  IF i > Len(engines) THEN acc
  ELSE LET engine == engines[i]
           thrust_vector == rotate(engine.direction, orientation)
           thrust_force == mul(thrust_vector, RMul(engine.thrust, throttle))
           lever == sub(engine.position, com)
       IN  EngineLoop(engines, i + 1, throttle, orientation, com,
                      [total_force |-> add(acc.total_force, thrust_force),
                       total_torque |-> RAdd(acc.total_torque, cross_z(lever, thrust_force)),
                       fuel_needed |-> RAdd(acc.fuel_needed,
                                            RMul(engine.fuel_consumption, throttle))])

\* sum(tank.fuel_level for tank in fuel_tanks)
RECURSIVE FuelAvailable(_, _)
FuelAvailable(fuel_tanks, i) ==
  IF i > Len(fuel_tanks) THEN Zero
  ELSE RAdd(fuel_tanks[i].fuel_level, FuelAvailable(fuel_tanks, i + 1))

\* Faulty variant of the drain loop: takes the whole drain from a tank
\* without the min against its level
RECURSIVE DrainLoop_Overdraw(_, _, _)
DrainLoop_Overdraw(fuel_tanks, i, drain) ==
  IF i > Len(fuel_tanks) THEN fuel_tanks
  ELSE IF RLe(drain, Zero) THEN fuel_tanks
  ELSE LET taken == drain
       IN  DrainLoop_Overdraw([fuel_tanks EXCEPT ![i].fuel_level = RSub(@, taken)],
                              i + 1, RSub(drain, taken))

\* Faulty variant of the drain loop: the break test is inverted, so the loop
\* leaves at the first tank while fuel is still owed
RECURSIVE DrainLoop_BreakInverted(_, _, _)
DrainLoop_BreakInverted(fuel_tanks, i, drain) ==
  IF i > Len(fuel_tanks) THEN fuel_tanks
  ELSE IF RGt(drain, Zero) THEN fuel_tanks
  ELSE LET taken == RMin(fuel_tanks[i].fuel_level, drain)
       IN  DrainLoop_BreakInverted([fuel_tanks EXCEPT ![i].fuel_level = RSub(@, taken)],
                                   i + 1, RSub(drain, taken))

\* the drain loop: the tanks after taking `drain` from them in list order
RECURSIVE DrainLoop(_, _, _)
DrainLoop(fuel_tanks, i, drain) ==
  IF i > Len(fuel_tanks) THEN fuel_tanks
  ELSE IF RLe(drain, Zero) THEN fuel_tanks
  ELSE LET taken == RMin(fuel_tanks[i].fuel_level, drain)
       IN  DrainLoop([fuel_tanks EXCEPT ![i].fuel_level = RSub(@, taken)],
                     i + 1, RSub(drain, taken))

\* Faulty variant of the clamp: no ceiling at 1.0
ClampThrottle_NoCeiling(throttle) == RMax(Zero, throttle)

\* max(0.0, min(1.0, throttle))
ClampThrottle(throttle) == RMax(Zero, RMin(One, throttle))

\* the accumulators before the engine loop
NoThrust == [total_force |-> Zero2, total_torque |-> Zero, fuel_needed |-> Zero]

\* Faulty variant of the derate: the force is scaled, the torque is not
Derate_ForceOnly(acc, fuel_available, fuel_tanks) ==
  LET fuel_used == RMin(fuel_available, acc.fuel_needed)
      scale == RDiv(fuel_used, acc.fuel_needed)
      scaled == RGt(acc.fuel_needed, Zero)
  IN  [force |-> IF scaled THEN mul(acc.total_force, scale) ELSE acc.total_force,
       torque |-> acc.total_torque,
       fuel_used |-> fuel_used,
       fuel_tanks |-> IF RGt(fuel_used, Zero)
                        THEN DrainLoop(fuel_tanks, 1, fuel_used)
                        ELSE fuel_tanks]

\* compute_propulsion after the engine loop: the fuel actually used, the
\* derate of force and torque, the drain
Derate(acc, fuel_available, fuel_tanks) ==
  LET fuel_used == RMin(fuel_available, acc.fuel_needed)
      scale == RDiv(fuel_used, acc.fuel_needed)
      scaled == RGt(acc.fuel_needed, Zero)
  IN  [force |-> IF scaled THEN mul(acc.total_force, scale) ELSE acc.total_force,
       torque |-> IF scaled THEN RMul(acc.total_torque, scale) ELSE acc.total_torque,
       fuel_used |-> fuel_used,
       fuel_tanks |-> IF RGt(fuel_used, Zero)
                        THEN DrainLoop(fuel_tanks, 1, fuel_used)
                        ELSE fuel_tanks]

\* returns the PropulsionResult and the tanks as the call leaves them
compute_propulsion(engines, fuel_tanks, throttle, orientation, com) ==
  Derate(EngineLoop(engines, 1, ClampThrottle(throttle), orientation, com, NoThrust),
         FuelAvailable(fuel_tanks, 1), fuel_tanks)

\* ------------------------------------------------------------------------
\* physics.py: integrator
\* ------------------------------------------------------------------------

\* Faulty variant of integrate: position and orientation advance with the
\* pre-update velocities (explicit Euler)
integrate_ExplicitEuler(position, velocity, orientation, angular_velocity, force, torque, mass, inertia, dt) ==
  LET acceleration == IF RGt(mass, Zero) THEN mul(force, RDiv(One, mass)) ELSE Zero2
      new_velocity == add(velocity, mul(acceleration, dt))
      new_position == add(position, mul(velocity, dt))
      angular_acc == IF RGt(inertia, Zero) THEN RDiv(torque, inertia) ELSE Zero
      new_angular_velocity == RAdd(angular_velocity, RMul(angular_acc, dt))
      new_orientation == AAddRad(orientation, RMul(angular_velocity, dt))
  IN  <<new_position, new_velocity, new_orientation, new_angular_velocity>>

\* integrate: returns <<position, velocity, orientation, angular_velocity>>
integrate(position, velocity, orientation, angular_velocity, force, torque, mass, inertia, dt) ==
  LET acceleration == IF RGt(mass, Zero) THEN mul(force, RDiv(One, mass)) ELSE Zero2
      new_velocity == add(velocity, mul(acceleration, dt))
      new_position == add(position, mul(new_velocity, dt))
      angular_acc == IF RGt(inertia, Zero) THEN RDiv(torque, inertia) ELSE Zero
      new_angular_velocity == RAdd(angular_velocity, RMul(angular_acc, dt))
      new_orientation == AAddRad(orientation, RMul(new_angular_velocity, dt))
  IN  <<new_position, new_velocity, new_orientation, new_angular_velocity>>

\* ------------------------------------------------------------------------
\* spaceship.py
\* ------------------------------------------------------------------------

\* Spaceship(): the dataclass defaults
Spaceship ==
  [components |-> <<>>, engines |-> <<>>, fuel_tanks |-> <<>>, wings |-> <<>>,
   position |-> Zero2, velocity |-> Zero2, orientation |-> Radians90,
   angular_velocity |-> Zero]

all_components(ship) == ship.components \o ship.engines \o ship.fuel_tanks \o ship.wings

\* sum(f(comp) for comp in comps), for the three sums of the properties
RECURSIVE SumMass(_, _)
SumMass(comps, i) ==
  IF i > Len(comps) THEN Zero ELSE RAdd(comps[i].mass, SumMass(comps, i + 1))

RECURSIVE SumMoment(_, _, _)
SumMoment(comps, i, axis) ==
  IF i > Len(comps) THEN Zero
  ELSE RAdd(RMul(comps[i].position[axis], comps[i].mass), SumMoment(comps, i + 1, axis))

\* Spaceship.mass
ship_mass(ship) == SumMass(all_components(ship), 1)

\* Spaceship.center_of_mass
center_of_mass(ship) ==
  LET total_mass == ship_mass(ship)
  IN  IF total_mass = Zero THEN Zero2
      ELSE <<RDiv(SumMoment(all_components(ship), 1, 1), total_mass),
             RDiv(SumMoment(all_components(ship), 1, 2), total_mass)>>

RECURSIVE InertiaLoop(_, _, _)
InertiaLoop(comps, i, com) ==
  IF i > Len(comps) THEN Zero
  ELSE LET r == sub(comps[i].position, com)
       IN  RAdd(RAdd(component_inertia(comps[i]),
                     RMul(comps[i].mass, RAdd(RSq(r[1]), RSq(r[2])))),
                InertiaLoop(comps, i + 1, com))

\* Spaceship.moment_of_inertia
moment_of_inertia(ship) == InertiaLoop(all_components(ship), 1, center_of_mass(ship))

\* Faulty variant of attach: a fuel tank goes to the front of its list
attach_TankFirst(ship, component) ==
  IF component.class = "Engine"
    THEN [ship EXCEPT !.engines = Append(@, component)]
  ELSE IF component.class = "FuelTank"
    THEN [ship EXCEPT !.fuel_tanks = <<component>> \o @]
  ELSE IF component.class = "Wing"
    THEN [ship EXCEPT !.wings = Append(@, component)]
  ELSE [ship EXCEPT !.components = Append(@, component)]

\* Spaceship.attach
attach(ship, component) ==
  IF component.class = "Engine"
    THEN [ship EXCEPT !.engines = Append(@, component)]
  ELSE IF component.class = "FuelTank"
    THEN [ship EXCEPT !.fuel_tanks = Append(@, component)]
  ELSE IF component.class = "Wing"
    THEN [ship EXCEPT !.wings = Append(@, component)]
  ELSE [ship EXCEPT !.components = Append(@, component)]

\* Spaceship.apply_controls: the two results, and the ship with its tanks
\* as compute_propulsion leaves them
apply_controls(ship, throttle, control_surfaces) ==
  LET Aero(com, propulsion) ==
        LET drained == [ship EXCEPT !.fuel_tanks = propulsion.fuel_tanks]
        IN  [propulsion |-> propulsion,
             aero |-> compute_aero_forces(all_components(drained), drained.wings,
                                          drained.velocity, drained.angular_velocity,
                                          drained.orientation, com),
             ship |-> drained]
      Propulsion(com) ==
        Aero(com, compute_propulsion(ship.engines, ship.fuel_tanks, throttle,
                                     ship.orientation, com))
  IN  Propulsion(center_of_mass(ship))

\* the floor of the inertia handed to integrate, 1e-3
InertiaFloor == <<1, 1000>>

\* Spaceship.simulate_step after apply_controls: weight, the sums, the
\* integrator; the ship after the call, with the values computed on the way
StepForces(applied, dt) ==
  LET Integrate(total_force, total_torque, m, floored) ==
        LET Store(out) ==
              [ship |-> [applied.ship EXCEPT !.position = out[1], !.velocity = out[2],
                                             !.orientation = out[3],
                                             !.angular_velocity = out[4]],
               propulsion |-> [force |-> applied.propulsion.force,
                               torque |-> applied.propulsion.torque,
                               fuel_used |-> applied.propulsion.fuel_used],
               aero |-> applied.aero,
               total_force |-> total_force, total_torque |-> total_torque,
               mass |-> m, inertia |-> floored]
        IN  Store(integrate(applied.ship.position, applied.ship.velocity,
                            applied.ship.orientation, applied.ship.angular_velocity,
                            total_force, total_torque, m, floored, dt))
      weight == <<Zero, RMul(RNeg(ship_mass(applied.ship)), EARTH_GRAVITY)>>
      gravity_torque == Zero
  IN  Integrate(add(add(applied.propulsion.force, applied.aero.linear), weight),
                RAdd(RAdd(applied.propulsion.torque, applied.aero.torque), gravity_torque),
                ship_mass(applied.ship),
                RMax(moment_of_inertia(applied.ship), InertiaFloor))

\* sum of the deflections in a control_surfaces argument
RECURSIVE Deflection(_)
Deflection(control_surfaces) ==
  IF control_surfaces = {} THEN Zero
  ELSE LET entry == CHOOSE e \in control_surfaces : TRUE
       IN  RAdd(entry[2], Deflection(control_surfaces \ {entry}))

\* Faulty variant of simulate_step: the control surfaces act on the craft
simulate_step_Deflected(ship, throttle, dt, control_surfaces) ==
  StepForces(apply_controls([ship EXCEPT !.angular_velocity =
                                           RAdd(@, Deflection(control_surfaces))],
                            throttle, control_surfaces), dt)

\* Faulty variant of simulate_step: the throttle is scaled by the time step,
\* so the fuel demand of a tick is a rate times dt
simulate_step_RateTimesDt(ship, throttle, dt, control_surfaces) ==
  StepForces(apply_controls(ship, RMul(ClampThrottle(throttle), dt), control_surfaces), dt)

simulate_step(ship, throttle, dt, control_surfaces) ==
  StepForces(apply_controls(ship, throttle, control_surfaces), dt)


\* ------------------------------------------------------------------------
\* The parts a craft is assembled from (the role world.py's inventory plays)
\* ------------------------------------------------------------------------

Hull == HullSection("Hull", R(2), <<One, Zero>>, <<R(6), R(6)>>, Zero)

MainEngine ==
  Engine("Main", One, <<Zero, Zero>>, <<R(6), R(6)>>, Zero, R(30), R(2), <<One, Zero>>)

PrimaryTank == FuelTank("Primary", One, <<Zero, One>>, <<R(6), R(6)>>, Zero, R(2), R(2))

AuxTank == FuelTank("Aux", One, <<Zero, R(-1)>>, <<R(6), R(6)>>, Zero, One, One)

Fin == Wing("Fin", One, <<Zero, R(2)>>, <<R(6), R(6)>>, Zero, R(2), Zero, R(15))

Parts == {Hull, MainEngine, PrimaryTank, AuxTank, Fin}

\* parts of the pre-assembled crafts
SurveyCockpit == Cockpit("Survey Cockpit", One, <<Zero, R(3)>>, <<R(6), R(6)>>, Zero)

Booster ==
  Engine("Booster", One, <<Zero, Zero>>, <<R(6), R(6)>>, Zero, R(4), Zero, <<One, Zero>>)

\* an engine that empties a full PrimaryTank in one tick at half throttle
Torch ==
  Engine("Torch", One, <<Zero, Zero>>, <<R(6), R(6)>>, Zero, R(30), R(4), <<One, Zero>>)

\* the drag area for which 0.5 * ATMOSPHERIC_DENSITY * DRAG_COEFFICIENT * area = 1
UnitDragArea == <<800, 343>>

\* a pod of mass 3 whose full thrust is 3 * (EARTH_GRAVITY + 1)
PodEngine ==
  Engine("PodEngine", One, <<Zero, Zero>>, <<R(6), R(6)>>, UnitDragArea,
         <<648399, 20000>>, One, <<One, Zero>>)

PodTankLeft ==
  FuelTank("PodTankLeft", One, <<Zero, One>>, <<R(6), R(6)>>, UnitDragArea, R(3), R(3))

PodTankRight ==
  FuelTank("PodTankRight", One, <<Zero, R(-1)>>, <<R(6), R(6)>>, UnitDragArea, R(3), R(3))

\* a glider of mass 4 whose full thrust is 4 * (EARTH_GRAVITY + 1)
GliderEngine ==
  Engine("GliderEngine", One, <<Zero, Zero>>, <<R(6), R(6)>>, RMul(R(2), UnitDragArea),
         <<216133, 5000>>, One, <<One, Zero>>)

Canard == Wing("Canard", One, <<Zero, Zero>>, <<R(6), R(6)>>, Zero, R(2), R(5), R(15))

\* a rocket laid out along its thrust axis: nose, tank, engine at the tail
Nose == HullSection("Nose", One, <<One, Zero>>, <<R(6), R(6)>>, Zero)

RocketTank == FuelTank("RocketTank", One, <<Zero, Zero>>, <<R(6), R(6)>>, Zero, R(4), R(3))

RocketEngine ==
  Engine("RocketEngine", One, <<R(-1), Zero>>, <<R(6), R(6)>>, Zero, R(90), R(2),
         <<One, Zero>>)

\* a dart: engine and tank at one point, more thrust than fuel
DartEngine ==
  Engine("DartEngine", One, <<Zero, Zero>>, <<R(6), R(6)>>, Zero, R(60), R(2),
         <<One, Zero>>)

\* the crafts of the burn flights: no net torque at the default heading
BurnCrafts ==
  { <<Torch, PrimaryTank>>,
    <<Torch, PrimaryTank, AuxTank>>,
    <<Torch, AuxTank, PrimaryTank>>,
    <<SurveyCockpit, Booster, Torch, PrimaryTank, AuxTank, Fin>>,
    <<Booster, PrimaryTank>>,
    <<SurveyCockpit, PrimaryTank, AuxTank>> }

\* the crafts of the vertical ascents
AscentCrafts ==
  { <<PodEngine, PodTankLeft, PodTankRight>>,
    <<GliderEngine, PodTankLeft, PodTankRight, Canard>>,
    <<PodEngine, PodTankRight, PodTankLeft>>,
    <<Nose, RocketTank, RocketEngine>>,
    <<DartEngine, RocketTank>>,
    <<DartEngine, RocketTank, SurveyCockpit>> }

\* the throttle commands, time steps and control_surfaces arguments of a tick
Throttles == {R(-1), Half, R(2)}
Dts == {Half, One}
AscentDts == {Half, One, R(2)}

\* the arguments of the direct integrate calls: <<force, torque>>, mass, inertia
Pushes == {<<Zero2, Zero>>, <<<<R(2), R(-4)>>, R(3)>>}
Masses == {R(-1), Zero, R(2)}
Inertias == {R(-1), Zero, R(2)}
ControlSurfaces == {{}, {<<"elevator", One>>}}

\* ------------------------------------------------------------------------
\* State
\* ------------------------------------------------------------------------

VARIABLES
  ship,       \* the Spaceship object
  attached,   \* the names of the parts, in the order attach was called
  ticks,      \* simulate_step / integrate calls made so far
  last        \* the last call: its arguments, the ship before it, its results

vars == <<ship, attached, ticks, last>>

NoCall ==
  [op |-> "none", throttle |-> Zero, dt |-> Zero, control_surfaces |-> {},
   before |-> Spaceship, propulsion |-> [force |-> Zero2, torque |-> Zero, fuel_used |-> Zero],
   force |-> Zero2, torque |-> Zero, mass |-> Zero, inertia |-> Zero]

Init ==
  /\ ship = Spaceship
  /\ attached = <<>>
  /\ ticks = 0
  /\ last = NoCall

\* ship.attach(part), during assembly
Attach ==
  \E part \in Parts :
    /\ ticks = 0
    /\ Len(attached) < MaxParts
    /\ \A i \in 1..Len(attached) : attached[i] # part.name
    /\ ship' = attach(ship, part)
    /\ attached' = Append(attached, part.name)
    /\ last' = [NoCall EXCEPT !.op = "attach", !.before = ship]
    /\ UNCHANGED ticks

\* one ship.simulate_step(throttle, dt, control_surfaces)
Step(throttle, dt, control_surfaces) ==
  /\ ticks < MaxTicks
  /\ OnQuarterTurn(ship.orientation)
  /\ \E run \in {simulate_step(ship, throttle, dt, control_surfaces)} :
       /\ ship' = run.ship
       /\ last' = [op |-> "simulate_step", throttle |-> throttle, dt |-> dt,
                   control_surfaces |-> control_surfaces, before |-> ship,
                   propulsion |-> run.propulsion, force |-> run.total_force,
                   torque |-> run.total_torque, mass |-> run.mass,
                   inertia |-> run.inertia]
  /\ ticks' = ticks + 1
  /\ UNCHANGED attached

SimulateStep ==
  \E throttle \in Throttles, dt \in Dts, control_surfaces \in ControlSurfaces :
    Step(throttle, dt, control_surfaces)

Next == Attach \/ SimulateStep

Spec == Init /\ [][Next]_vars

\* ------------------------------------------------------------------------
\* Pre-assembled crafts
\* ------------------------------------------------------------------------

RECURSIVE Assemble(_, _)
Assemble(craft, parts) ==
  IF parts = <<>> THEN craft ELSE Assemble(attach(craft, Head(parts)), Tail(parts))

Assembled(parts) ==
  /\ ship = Assemble(Spaceship, parts)
  /\ attached = [i \in 1..Len(parts) |-> parts[i].name]
  /\ ticks = 0
  /\ last = NoCall

\* ------------------------------------------------------------------------
\* Burn flights: the driver loop keeps calling simulate_step with a
\* throttle above zero
\* ------------------------------------------------------------------------

InitBurn == \E parts \in BurnCrafts : Assembled(parts)

BurnStep ==
  \E throttle \in {t \in Throttles : RGt(t, Zero)}, dt \in Dts,
     control_surfaces \in ControlSurfaces :
    Step(throttle, dt, control_surfaces)

\* the driver loop makes its next call: the tick count advances. Every step
\* of a burn flight that advances the count is a BurnStep, and a BurnStep is
\* possible whenever the count can advance, so fairness of this action is
\* weak fairness of BurnStep.
NextCall ==
  /\ ticks < MaxTicks
  /\ OnQuarterTurn(ship.orientation)
  /\ ticks' = ticks + 1

SpecBurn == InitBurn /\ [][BurnStep]_vars /\ WF_ticks(NextCall)

\* ------------------------------------------------------------------------
\* Vertical ascents: throttle held at 1.0 from rest
\* ------------------------------------------------------------------------

InitAscent == \E parts \in AscentCrafts : Assembled(parts)

FullThrottleStep ==
  \E dt \in AscentDts, control_surfaces \in ControlSurfaces :
    Step(One, dt, control_surfaces)

SpecAscent == InitAscent /\ [][FullThrottleStep]_vars

\* ------------------------------------------------------------------------
\* The integrator called directly, and simulate_step on a craft without
\* components
\* ------------------------------------------------------------------------

CallIntegrate ==
  \E push \in Pushes, mass \in Masses, inertia \in Inertias, dt \in Dts :
    /\ ticks < MaxTicks
    /\ \E out \in {integrate(ship.position, ship.velocity, ship.orientation,
                              ship.angular_velocity, push[1], push[2], mass, inertia, dt)} :
         ship' = [ship EXCEPT !.position = out[1], !.velocity = out[2],
                              !.orientation = out[3], !.angular_velocity = out[4]]
    /\ last' = [NoCall EXCEPT !.op = "integrate", !.dt = dt, !.before = ship,
                              !.force = push[1], !.torque = push[2],
                              !.mass = mass, !.inertia = inertia]
    /\ ticks' = ticks + 1
    /\ UNCHANGED attached

NextIntegrate == CallIntegrate \/ SimulateStep

SpecIntegrate == Init /\ [][NextIntegrate]_vars

\* ------------------------------------------------------------------------
\* Properties
\* ------------------------------------------------------------------------

IsTick == last.op = "simulate_step"

TotalFuel(craft) == FuelAvailable(craft.fuel_tanks, 1)

FuelInRange(craft) ==
  \A i \in 1..Len(craft.fuel_tanks) :
    /\ RLe(Zero, craft.fuel_tanks[i].fuel_level)
    /\ RLe(craft.fuel_tanks[i].fuel_level, craft.fuel_tanks[i].fuel_capacity)

\* C1: fuel conservation. After every tick the total fuel before the call
\* minus the total fuel after it equals the returned fuel_used, and every
\* tank has 0 <= fuel_level <= fuel_capacity, after any sequence of ticks.
C1_FuelConservation ==
  /\ FuelInRange(ship)
  /\ IsTick => RSub(TotalFuel(last.before), TotalFuel(ship)) = last.propulsion.fuel_used

\* a second tick that burns fuel out of two tanks
C1_Witness ==
  /\ IsTick /\ ticks = 2
  /\ Len(ship.fuel_tanks) = 2
  /\ RGt(last.propulsion.fuel_used, Zero)
  /\ RGt(TotalFuel(ship), Zero)

\* the undiminished engine sums of the last tick
Nominal ==
  EngineLoop(last.before.engines, 1, ClampThrottle(last.throttle),
             last.before.orientation, center_of_mass(last.before), NoThrust)

Starved == RGt(Nominal.fuel_needed, TotalFuel(last.before))

\* C2: starvation derate. When the fuel required by a tick exceeds the fuel
\* available, force and torque are the nominal ones times available/required,
\* fuel_used is the available fuel and every tank ends at 0; otherwise force
\* and torque are nominal and fuel_used is the required fuel.
C2_StarvationDerate ==
  IsTick =>
    IF Starved
      THEN /\ last.propulsion.force =
                mul(Nominal.total_force, RDiv(TotalFuel(last.before), Nominal.fuel_needed))
           /\ last.propulsion.torque =
                RMul(Nominal.total_torque, RDiv(TotalFuel(last.before), Nominal.fuel_needed))
           /\ last.propulsion.fuel_used = TotalFuel(last.before)
           /\ \A i \in 1..Len(ship.fuel_tanks) : ship.fuel_tanks[i].fuel_level = Zero
      ELSE /\ last.propulsion.force = Nominal.total_force
           /\ last.propulsion.torque = Nominal.total_torque
           /\ last.propulsion.fuel_used = Nominal.fuel_needed

\* a starved tick with fuel left to burn and a torque to derate
C2_Witness ==
  /\ IsTick /\ Starved
  /\ RGt(TotalFuel(last.before), Zero)
  /\ Nominal.total_torque # Zero
  /\ last.propulsion.torque # Nominal.total_torque

\* what the last tick would have done from the same craft with another
\* throttle, time step or control_surfaces argument
Rerun(throttle, dt, control_surfaces) ==
  simulate_step(last.before, throttle, dt, control_surfaces)

SamePropulsion(run) ==
  /\ run.propulsion = last.propulsion
  /\ run.ship.fuel_tanks = ship.fuel_tanks

\* C3: throttle clamping. A tick with throttle above 1 gives the force,
\* torque, fuel_used and tank levels of a tick with throttle 1.0; a tick
\* with throttle below 0 gives those of throttle 0.0: zero force and torque,
\* fuel_used 0, every tank unchanged.
C3_ThrottleClamped ==
  IsTick =>
    /\ RGt(last.throttle, One) =>
         SamePropulsion(Rerun(One, last.dt, last.control_surfaces))
    /\ RLt(last.throttle, Zero) =>
         /\ SamePropulsion(Rerun(Zero, last.dt, last.control_surfaces))
         /\ last.propulsion = [force |-> Zero2, torque |-> Zero, fuel_used |-> Zero]
         /\ ship.fuel_tanks = last.before.fuel_tanks

\* a tick commanded above 1 that had the fuel for more than full throttle
C3_Witness ==
  /\ IsTick
  /\ RGt(last.throttle, One)
  /\ RGt(last.propulsion.fuel_used, Zero)
  /\ RGt(TotalFuel(ship), Zero)

\* the names of the fuel tanks among the parts
TankNames == {PrimaryTank.name, AuxTank.name, PodTankLeft.name, PodTankRight.name,
              RocketTank.name}

IsTankName(name) == name \in TankNames

\* the position of a part in the order of the attach calls
AttachIndex(name) == CHOOSE i \in 1..Len(attached) : attached[i] = name

Drained(i) == RLt(ship.fuel_tanks[i].fuel_level, last.before.fuel_tanks[i].fuel_level)

\* C4: drain priority follows attach order. The fuel tanks are held in the
\* order they were attached, and a tank's level is reduced in a tick only if
\* every tank attached before it is at level 0 after that tick.
C4_DrainFollowsAttachOrder ==
  /\ [i \in 1..Len(ship.fuel_tanks) |-> ship.fuel_tanks[i].name]
       = SelectSeq(attached, IsTankName)
  /\ IsTick =>
       \A i \in 1..Len(ship.fuel_tanks), j \in 1..Len(ship.fuel_tanks) :
         (AttachIndex(ship.fuel_tanks[i].name) < AttachIndex(ship.fuel_tanks[j].name)
            /\ Drained(j))
           => ship.fuel_tanks[i].fuel_level = Zero

\* one tick that empties the tank attached first and takes the rest of its
\* fuel from the tank attached second
C4_Witness ==
  /\ IsTick
  /\ Len(ship.fuel_tanks) = 2
  /\ Drained(1) /\ Drained(2)
  /\ RGt(ship.fuel_tanks[2].fuel_level, Zero)

\* C5: derived mass reflects live fuel levels. After a tick with
\* fuel_used > 0 the mass read from the craft differs from the mass read
\* before that tick.
C5_MassFollowsFuel ==
  (IsTick /\ RGt(last.propulsion.fuel_used, Zero))
    => ship_mass(ship) # ship_mass(last.before)

\* a craft without its kinematic state and its fuel levels
Frame(craft) ==
  [components |-> craft.components, engines |-> craft.engines, wings |-> craft.wings,
   fuel_tanks |-> [i \in 1..Len(craft.fuel_tanks) |->
                     [craft.fuel_tanks[i] EXCEPT !.fuel_level = Zero]]]

\* C6: frame of simulate_step. A tick changes only position, velocity,
\* orientation, angular velocity and the fuel_level of tanks: the four
\* collections keep their members, order and every other attribute; and the
\* control_surfaces argument has no effect on the resulting state.
C6_StepFrame ==
  IsTick =>
    /\ Frame(ship) = Frame(last.before)
    /\ \A control_surfaces \in ControlSurfaces \ {last.control_surfaces} :
         Rerun(last.throttle, last.dt, control_surfaces).ship = ship

\* a tick with an elevator deflection that moved the craft and drained a tank
C6_Witness ==
  /\ IsTick
  /\ last.control_surfaces # {}
  /\ ship.position # last.before.position
  /\ ship.fuel_tanks # last.before.fuel_tanks
  /\ Len(all_components(ship)) = MaxParts

\* sum(engine.fuel_consumption * throttle), by its own recursion
RECURSIVE FuelDemand(_, _, _)
FuelDemand(engines, i, throttle) ==
  IF i > Len(engines) THEN Zero
  ELSE RAdd(RMul(engines[i].fuel_consumption, throttle), FuelDemand(engines, i + 1, throttle))

\* C10: fuel consumption per tick does not depend on dt. From the same
\* craft and throttle, ticks with different dt drain the same fuel from the
\* same tanks and apply the same propulsion force and torque; the demand is
\* sum(fuel_consumption * clamped throttle), not multiplied by dt.
C10_FuelIndependentOfDt ==
  IsTick =>
    /\ \A dt \in Dts \ {last.dt} :
         \E run \in {Rerun(last.throttle, dt, last.control_surfaces)} :
           /\ SamePropulsion(run)
           /\ Frame(run.ship) = Frame(ship)
    /\ last.propulsion.fuel_used =
         RMin(TotalFuel(last.before),
              FuelDemand(last.before.engines, 1, RMax(Zero, RMin(One, last.throttle))))

\* a tick of half a second at part throttle that burned fuel and moved the
\* craft differently from a tick of one second
C10_Witness ==
  /\ IsTick
  /\ last.dt = Half
  /\ RGt(last.propulsion.fuel_used, Zero)
  /\ RLt(last.propulsion.fuel_used, TotalFuel(last.before))
  /\ Rerun(last.throttle, One, last.control_surfaces).ship.position # ship.position

\* a craft all of whose parts sit on the body axis or in mirrored pairs
\* about it, with a single engine on the axis that thrusts along it and no
\* wing that lifts
Mirror(position) == <<position[1], RNeg(position[2])>>

Symmetric(craft) ==
  /\ Len(craft.engines) = 1
  /\ craft.engines[1].direction = <<One, Zero>>
  /\ craft.engines[1].position[2] = Zero
  /\ craft.wings = <<>>
  /\ \A i \in 1..Len(all_components(craft)) :
       \E j \in 1..Len(all_components(craft)) :
         /\ all_components(craft)[j].position = Mirror(all_components(craft)[i].position)
         /\ all_components(craft)[j].mass = all_components(craft)[i].mass
         /\ all_components(craft)[j].size = all_components(craft)[i].size
         /\ all_components(craft)[j].drag_area = all_components(craft)[i].drag_area

ThrustBeatsGravity ==
  RGt(RDiv(length(last.propulsion.force), last.mass), EARTH_GRAVITY)

\* C7: straight vertical ascent. For a symmetric craft with a single engine
\* thrusting along the body axis, from rest at 90 degrees with throttle held
\* at 1.0: the orientation stays at 90 degrees and the angular velocity at 0
\* on every tick, and position.y strictly increases on every tick in which
\* the (possibly derated) thrust divided by mass exceeds gravity.
C7_StraightAscent ==
  (IsTick /\ Symmetric(ship)) =>
    /\ ship.orientation = Radians90
    /\ ship.angular_velocity = Zero
    /\ ThrustBeatsGravity => RGt(ship.position[2], last.before.position[2])

\* C8: semi-implicit Euler with degenerate guards. integrate returns
\* velocity + (force/mass)*dt when mass > 0 and the velocity unchanged when
\* mass <= 0, position + new_velocity*dt, angular_velocity +
\* (torque/inertia)*dt when inertia > 0 and unchanged when inertia <= 0, and
\* orientation + new_angular_velocity*dt; and a craft without components at
\* rest keeps its position and zero velocity over simulate_step calls.
C8_SemiImplicitEuler ==
  /\ last.op = "integrate" =>
       /\ ship.velocity =
            IF RGt(last.mass, Zero)
              THEN <<RAdd(last.before.velocity[1],
                          RMul(RDiv(last.force[1], last.mass), last.dt)),
                     RAdd(last.before.velocity[2],
                          RMul(RDiv(last.force[2], last.mass), last.dt))>>
              ELSE last.before.velocity
       /\ ship.position =
            <<RAdd(last.before.position[1], RMul(ship.velocity[1], last.dt)),
              RAdd(last.before.position[2], RMul(ship.velocity[2], last.dt))>>
       /\ ship.angular_velocity =
            IF RGt(last.inertia, Zero)
              THEN RAdd(last.before.angular_velocity,
                        RMul(RDiv(last.torque, last.inertia), last.dt))
              ELSE last.before.angular_velocity
       /\ ship.orientation =
            AAddRad(last.before.orientation, RMul(ship.angular_velocity, last.dt))
  /\ (IsTick /\ all_components(last.before) = <<>> /\ last.before.velocity = Zero2) =>
       /\ ship.position = last.before.position
       /\ ship.velocity = Zero2

\* a second integrate call with positive mass and inertia on a craft that
\* was already moving and turning
C8_Witness ==
  /\ last.op = "integrate" /\ ticks = 2
  /\ RGt(last.mass, Zero) /\ RGt(last.inertia, Zero)
  /\ last.force # Zero2
  /\ last.before.velocity # Zero2
  /\ last.before.angular_velocity # Zero
  /\ ship.position # last.before.position

HasBurner(craft) ==
  \E i \in 1..Len(craft.engines) : RGt(craft.engines[i].fuel_consumption, Zero)

NoPropulsion == [force |-> Zero2, torque |-> Zero, fuel_used |-> Zero]

\* fuel is never added to a tank
NeverRefilled ==
  /\ Len(ship.fuel_tanks') = Len(ship.fuel_tanks)
  /\ \A i \in 1..Len(ship.fuel_tanks) :
       RLe(ship.fuel_tanks'[i].fuel_level, ship.fuel_tanks[i].fuel_level)

\* with no fuel, none appears, and a tick that demands fuel propels nothing
ExhaustionPermanent ==
  TotalFuel(ship) = Zero =>
    /\ TotalFuel(ship') = Zero
    /\ (HasBurner(ship) /\ RGt(ClampThrottle(last'.throttle), Zero))
         => last'.propulsion = NoPropulsion

\* the total fuel is 0: no level is negative, so every tank is at 0
AllEmpty(craft) ==
  \A i \in 1..Len(craft.fuel_tanks) : craft.fuel_tanks[i].fuel_level = Zero

\* C9: fuel is never replenished and exhaustion is permanent. Each tank's
\* fuel_level is non-increasing over the ticks; with the throttle held above
\* 0 and an engine with fuel_consumption > 0 the total fuel eventually
\* reaches 0; once it is 0 it stays 0 and every later tick with positive
\* fuel demand returns force (0,0), torque 0 and fuel_used 0.
C9_FuelRunsOutForGood ==
  /\ [][NeverRefilled]_vars
  /\ HasBurner(ship) => <>AllEmpty(ship)
  /\ [][ExhaustionPermanent]_vars

\* a tick made by a fuel-burning craft after its tanks had run dry
C9_Witness ==
  /\ IsTick
  /\ HasBurner(ship)
  /\ Len(ship.fuel_tanks) > 0
  /\ TotalFuel(last.before) = Zero
  /\ last.propulsion = NoPropulsion

=============================================================================
